---- MODULE Spec2Model ----
(***************************************************************************)
(* Borrowing / inventory / payment core of the library service.            *)
(*                                                                         *)
(* The database is modelled at READ COMMITTED: every ORM query outside a   *)
(* transaction.atomic() block is one step that reads the committed rows,   *)
(* and a transaction.atomic() block that starts with select_for_update()   *)
(* is two steps: taking the row lock (and reading the locked row), then    *)
(* the commit that makes all of its writes visible at once.                *)
(*                                                                         *)
(* Money is kept in cents.  Dates are day numbers.  A nullable column is a *)
(* sequence of length 0 (NULL) or 1.                                       *)
(***************************************************************************)
EXTENDS Integers, Sequences, FiniteSets, TLC

(* ------------------------------ bounds --------------------------------- *)

\* Concurrent request handlers (web workers).
NumWorkers == 2
\* Requests accepted in one behaviour.
MaxRequests == 2
\* Largest inventory a seeded book starts with.
MaxInventory == 2
\* Last day the clock reaches (the clock starts at day 0).
MaxDay == 1
\* Payment calculator: last borrow_date, longest rental window in days, and
\* last day on which the amounts are computed.
MaxCalcBorrow == 1
MaxCalcWindow == 5
MaxCalcDay == 9

(* ------------------------------ identities ----------------------------- *)

Workers == 1..NumWorkers
Books == {1, 2}
Users == {"alice", "bob", "staff"}
\* The users who send Create requests.
Borrowers == {"alice", "bob"}

\* request.user.is_staff
IsStaff(u) == u = "staff"

\* Book.daily_fee of the seeded catalogue, in cents (2.00 and 1.50).
daily_fee(b) == IF b = 1 THEN 200 ELSE 150

\* expected_return_date values a Create request may carry, relative to today.
ExpectedOffsets == {-1, 0, 5}

NULL == << >>

VARIABLES
    today,        \* timezone.localdate()
    inventory,    \* Book.inventory, per book
    borrowings,   \* committed Borrowing rows
    payments,     \* committed Payment rows
    sessions,     \* checkout sessions held by the payment processor
    bookLock,     \* per book: the worker holding its row lock, 0 when free
    req,          \* per worker: the request it is handling
    last,         \* the response sent last
    nreq,         \* requests accepted so far
    nextId,       \* next primary key / session id to hand out
    total0,       \* per book: inventory + ACTIVE borrowings at the start
    catalogue,    \* the Book rows that exist
    queue         \* notification tasks dispatched and not yet run

vars == << today, inventory, borrowings, payments, sessions, bookLock, req,
           last, nreq, nextId, total0, catalogue, queue >>

(* ------------------------------ rows ----------------------------------- *)

\* Borrowing.is_active
is_active(r) == r.actual_return_date = NULL

Borrowing(id, u, b, borrowed, expected) ==
    [id |-> id, user |-> u, book |-> b, borrow_date |-> borrowed,
     expected_return_date |-> expected, actual_return_date |-> NULL]

Payment(id, bid, type, status, money, sid) ==
    [id |-> id, borrowing |-> bid, payment_type |-> type, status |-> status,
     money_to_pay |-> money, session_id |-> sid]

\* The columns of Payment, and the attribute names the callers use for the
\* payment type: the model names the column payment_type, every caller says
\* type.
PaymentFields_NamedType ==
    {"id", "status", "type", "borrowing", "session_url", "session_id",
     "money_to_pay", "created_at"}
PaymentFields ==
    {"id", "status", "payment_type", "borrowing", "session_url", "session_id",
     "money_to_pay", "created_at"}
PaymentCreateKwargs == {"borrowing", "money_to_pay", "type", "status"}

\* Payment.objects.create(**kwargs) raises TypeError for a keyword that is
\* no field of the model.
ObjectsCreateRaises == ~(PaymentCreateKwargs \subseteq PaymentFields)

\* payment.get_type_display() exists only if the model has a field "type"
\* (Django generates get_<field>_display); otherwise AttributeError.
GetTypeDisplayRaises_Never == FALSE
GetTypeDisplayRaises == ~("type" \in PaymentFields)

\* serializer.data of a ModelSerializer whose Meta.fields names "type"
\* raises ImproperlyConfigured when the model has no such field.
PaymentSerializerRaises == ~("type" \in PaymentFields)

(* ------------------------------ queries -------------------------------- *)

Row(bid) == CHOOSE r \in borrowings : r.id = bid

\* Mutant: the filter forgets actual_return_date__isnull=True.
ActiveBorrowingsOf_AnyState(u, b) ==
    {r \in borrowings : r.book = b /\ r.user = u}

\* Borrowing.objects.filter(book=, user=, actual_return_date__isnull=True)
ActiveBorrowingsOf(u, b) ==
    {r \in borrowings : r.book = b /\ r.user = u /\ r.actual_return_date = NULL}

\* Payment.objects.filter(borrowing=, status=PENDING)
PendingPayments(bid) ==
    {p \in payments : p.borrowing = bid /\ p.status = "PENDING"}

\* Payment.objects.filter(borrowing=)
PaymentsOf(bid) == {p \in payments : p.borrowing = bid}

\* Mutant: only the payments of ACTIVE borrowings count.
PendingPaymentsOfPair_ActiveOnly(u, b) ==
    {p \in payments :
        /\ p.status = "PENDING"
        /\ \E r \in borrowings :
              /\ r.id = p.borrowing /\ r.user = u /\ r.book = b
              /\ r.actual_return_date = NULL}

\* Payment.objects.filter(borrowing__user=, borrowing__book=, status=PENDING)
PendingPaymentsOfPair(u, b) ==
    {p \in payments :
        /\ p.status = "PENDING"
        /\ \E r \in borrowings : r.id = p.borrowing /\ r.user = u /\ r.book = b}

\* BorrowingViewSet.get_queryset: staff see every row, others their own.
Visible_Everyone(u, r) == TRUE
Visible(u, r) == IsStaff(u) \/ r.user = u

(* ------------------------------ validation ----------------------------- *)

\* Mutant: today itself is rejected too.
DateInPast_Inclusive(value, now) == value <= now

\* validate_expected_return_date: value < today is rejected.
DateInPast(value, now) == value < now

\* BorrowingCreateSerializer.validate
DuplicateActiveBorrowing(u, b) == ActiveBorrowingsOf(u, b) # {}

\* Mutant: the stock check lets a book with no copy left through.
OutOfStock_OffByOne(inv) == inv < 0

\* BorrowingCreateSerializer.create: if book.inventory <= 0: raise
OutOfStock(inv) == inv <= 0

\* Mutant: the check is missing.
AlreadyReturned_Unchecked(inst) == FALSE

\* BorrowingReturnSerializer.validate: already returned
AlreadyReturned(inst) == inst.actual_return_date # NULL

\* Mutant: the staff condition is inverted.
UnpaidBalance_StaffInverted(u, bid) == PendingPayments(bid) # {} /\ IsStaff(u)

\* Mutant: staff are not exempted.
UnpaidBalance_NoExemption(u, bid) == PendingPayments(bid) # {}

\* BorrowingReturnSerializer.validate and .update:
\* unpaid payments exist and not request.user.is_staff
UnpaidBalance(u, bid) == PendingPayments(bid) # {} /\ ~IsStaff(u)

(* ------------------------------ payment calculator --------------------- *)

Max(a, b) == IF a >= b THEN a ELSE b

\* Mutant: no minimum of one day.
rental_money_NoMinimum(fee, borrowed, expected) == fee * (expected - borrowed)

\* actual_days = max((expected_return_date - borrow_date).days, 1)
\* rental_money = daily_fee * actual_days
rental_money(fee, borrowed, expected) == fee * Max(expected - borrowed, 1)

\* overdue_days = max(0, (localdate() - expected_return_date).days)
overdue_days(expected, now) == Max(0, now - expected)

\* Mutant: the fine is not doubled.
fine_money_NotDoubled(fee, expected, now) == overdue_days(expected, now) * fee

\* fine_money = overdue_days * daily_fee * 2
fine_money(fee, expected, now) == overdue_days(expected, now) * fee * 2

(* ------------------------------ initial state -------------------------- *)

\* Rows present when the service starts: book 2 has one copy, book 1 any
\* number up to MaxInventory; the ledger is empty, or holds one
\* borrowing of book 1 by alice, entered on day 0 (as the tests' setUp and
\* the admin site enter rows), with
\*   none      no payment;
\*   pending   a PENDING rental payment and its checkout session;
\*   paid      the rental payment PAID, its session paid;
\*   again     the rental payment PAID and a second one, PENDING, with a
\*             checkout session of its own;
\*   returned  the borrowing returned on day 0 (by staff) with its rental
\*             payment still PENDING.
SeedKinds == {"none", "pending", "paid", "again", "returned"}
SeedExpected == {0}

SeedBorrowing(e, k) ==
    [Borrowing(1, "alice", 1, 0, e) EXCEPT
        !.actual_return_date = IF k = "returned" THEN << 0 >> ELSE NULL]

SeedPayments(e, k) ==
    (IF k = "none" THEN {}
     ELSE {Payment(2, 1, "PAYMENT",
                   IF k \in {"paid", "again"} THEN "PAID" ELSE "PENDING",
                   rental_money(daily_fee(1), 0, e), 3)})
    \cup
    (IF k = "again"
     THEN {Payment(4, 1, "PAYMENT", "PENDING",
                   rental_money(daily_fee(1), 0, e), 5)}
     ELSE {})

SeedSessions(k) ==
    (IF k = "none" THEN {}
     ELSE {[id |-> 3, payment_ids |-> << 2 >>, borrowing_id |-> 1,
            paid |-> (k \in {"paid", "again"})]})
    \cup
    (IF k = "again"
     THEN {[id |-> 5, payment_ids |-> << 4 >>, borrowing_id |-> 1,
            paid |-> FALSE]}
     ELSE {})

ActiveCount(rows, b) == Cardinality({r \in rows : r.book = b /\ is_active(r)})

Idle ==
    [op |-> "idle", pc |-> "idle", user |-> "-", book |-> 0, bid |-> 0,
     pid |-> 0, sid |-> 0, expected |-> 0, inst |-> NULL, inv |-> 0,
     date |-> 0, gateway |-> "-", rows |-> {}]

\* What a finished request answered; rows are the ids a list carries,
\* gateway records what the payment
\* processor did while the request was handled: "-" not asked, "ok"
\* answered, "failed" raised.
Response(r, result) ==
    [op |-> r.op, user |-> r.user, book |-> r.book, bid |-> r.bid,
     pid |-> r.pid, sid |-> r.sid, expected |-> r.expected,
     gateway |-> r.gateway, rows |-> r.rows, result |-> result]

Init ==
    /\ today = 0
    /\ inventory \in {f \in [Books -> 0..MaxInventory] : f[2] = 1}
    /\ \/ /\ borrowings = {}
          /\ payments = {}
          /\ sessions = {}
       \/ \E e \in SeedExpected, k \in SeedKinds :
            /\ borrowings = {SeedBorrowing(e, k)}
            /\ payments = SeedPayments(e, k)
            /\ sessions = SeedSessions(k)
    /\ bookLock = [b \in Books |-> 0]
    /\ req = [w \in Workers |-> Idle]
    /\ last = Response(Idle, "-")
    /\ nreq = 0
    /\ nextId = 6
    /\ total0 = [b \in Books |-> inventory[b] + ActiveCount(borrowings, b)]
    /\ catalogue = Books
    /\ queue = {}

(* ------------------------------ request plumbing ----------------------- *)

\* A free worker takes the next request; of several free workers the lowest
\* does (they are interchangeable).
Accepting(w) ==
    /\ req[w].op = "idle"
    /\ nreq < MaxRequests
    /\ \A v \in Workers : v < w => req[v].op # "idle"

\* Worker w goes on with its request, now in state r.
Continue(w, r) ==
    /\ req' = [req EXCEPT ![w] = r]
    /\ UNCHANGED last

\* Worker w answers its request r with result and is free again.
Finish(w, r, result) ==
    /\ req' = [req EXCEPT ![w] = Idle]
    /\ last' = Response(r, result)

db == << inventory, borrowings, payments, sessions >>

\* Mutant: the commit keeps the row lock.
Unlock_Never(b) == bookLock

\* The end of a with transaction.atomic() block that read the book's row
\* with select_for_update(): the row lock goes with the transaction.
Unlock(b) == [bookLock EXCEPT ![b] = 0]

(* ------------------------------ Create --------------------------------- *)

\* POST /borrowings: serializer.is_valid().  The fields are validated
\* first (book must be the key of a Book, expected_return_date must pass
\* its validator); validate() runs only if no field failed.
CreateValidate(w, u, b, off) ==
    /\ Accepting(w)
    /\ LET r == [Idle EXCEPT !.op = "Create", !.user = u, !.book = b,
                             !.expected = today + off]
       IN IF DateInPast(r.expected, today) THEN Finish(w, r, "InvalidDate")
          ELSE IF b \notin catalogue THEN Finish(w, r, "InvalidBook")
          ELSE IF DuplicateActiveBorrowing(u, b)
               THEN Finish(w, r, "DuplicateActiveBorrowing")
          ELSE Continue(w, [r EXCEPT !.pc = "create"])
    /\ nreq' = nreq + 1
    /\ UNCHANGED << today, db, bookLock, nextId, total0,
                    catalogue, queue >>

\* A notification task as dispatched: its name and the row it is about.
Task(name, id) == [task |-> name, id |-> id]

\* BorrowingCreateSerializer.create inside transaction.atomic():
\* select_for_update on the book row (Book.DoesNotExist when the row is
\* gone), the stock check, the writes, which stay invisible to the other
\* requests until the commit, and send_borrowing_notification.delay(id),
\* which the broker accepts at once or fails.  A raise rolls back and frees
\* the row; the primary key drawn for the Borrowing is spent either way.
CreateLock(w) ==
    /\ req[w].op = "Create" /\ req[w].pc = "create"
    /\ bookLock[req[w].book] = 0
    /\ \E sent \in BOOLEAN :
         IF req[w].book \notin catalogue
         THEN /\ Finish(w, req[w], "BookDoesNotExist")
              /\ UNCHANGED << bookLock, nextId, queue >>
         ELSE IF OutOfStock(inventory[req[w].book])
         THEN /\ Finish(w, req[w], "OutOfStock")
              /\ UNCHANGED << bookLock, nextId, queue >>
         ELSE IF ~sent
         THEN /\ Finish(w, [req[w] EXCEPT !.bid = nextId], "DispatchError")
              /\ nextId' = nextId + 1
              /\ UNCHANGED << bookLock, queue >>
         ELSE /\ Continue(w, [req[w] EXCEPT !.pc = "commit",
                                            !.inv = inventory[req[w].book],
                                            !.date = today,
                                            !.bid = nextId])
              /\ nextId' = nextId + 1
              /\ queue' = queue \cup {Task("borrowing", nextId)}
              /\ bookLock' = [bookLock EXCEPT ![req[w].book] = w]
    /\ UNCHANGED << today, db, nreq, total0, catalogue >>

\* Mutant: two copies are taken.
reserve_ByTwo(inv) == inv - 2

\* book.inventory -= 1
reserve(inv) == inv - 1

\* The commit of BorrowingCreateSerializer.create: book.inventory -= 1;
\* book.save(); Borrowing.objects.create(user=, **validated_data).
CreateCommit(w) ==
    /\ req[w].op = "Create" /\ req[w].pc = "commit"
    /\ inventory' = [inventory EXCEPT ![req[w].book] = reserve(req[w].inv)]
    /\ borrowings' = borrowings \cup
          {Borrowing(req[w].bid, req[w].user, req[w].book, req[w].date,
                     req[w].expected)}
    /\ bookLock' = Unlock(req[w].book)
    /\ Finish(w, req[w], "Created")
    /\ UNCHANGED << today, payments, sessions, nreq, nextId, total0,
                    catalogue, queue >>

(* ------------------------------ payment creation ----------------------- *)

\* PaymentCreateSerializer: the borrowing field accepts only a primary key
\* of its queryset (all rows for staff, the requester's own otherwise);
\* validate() then rejects a PENDING payment of the same user and book.
PaymentValidate(u, bid) ==
    IF ~(\E r \in borrowings : r.id = bid /\ Visible(u, r))
    THEN "InvalidBorrowing"
    ELSE IF Row(bid).user # u /\ ~IsStaff(u) THEN "NotOwner"
    ELSE IF PendingPaymentsOfPair(Row(bid).user, Row(bid).book) # {}
         THEN "DuplicatePendingPayment"
    ELSE "ok"

\* The rows PaymentCreateSerializer.create inserts: the rental payment, and
\* a fine when the borrowing is overdue today.
NewPayments(brow, id, now) ==
    {Payment(id, brow.id, "PAYMENT", "PENDING",
             rental_money(daily_fee(brow.book), brow.borrow_date,
                          brow.expected_return_date), 0)}
    \cup
    (IF overdue_days(brow.expected_return_date, now) > 0
     THEN {Payment(id + 1, brow.id, "FINE", "PENDING",
                   fine_money(daily_fee(brow.book), brow.expected_return_date,
                              now), 0)}
     ELSE {})

\* Mutant: neither the pending check nor the INSERT raises.
SerializerCreate_Unchecked(brow) ==
    [error |-> "ok",
     payments |-> payments \cup NewPayments(brow, nextId, today)]

\* PaymentCreateSerializer.create: one transaction; a raise rolls it back.
SerializerCreate(brow) ==
    IF PendingPayments(brow.id) # {}
    THEN [error |-> "DuplicatePendingPayment", payments |-> payments]
    ELSE IF ObjectsCreateRaises
    THEN [error |-> "TypeError", payments |-> payments]
    ELSE [error |-> "ok",
          payments |-> payments \cup NewPayments(brow, nextId, today)]

RECURSIVE NewestFirst(_)
\* list(queryset) under Payment.Meta.ordering = ["-created_at"]
NewestFirst(S) ==
    IF S = {} THEN << >>
    ELSE LET m == CHOOSE x \in S : \A y \in S : y.id <= x.id
         IN << m.id >> \o NewestFirst(S \ {m})

\* StripeService.get_or_create_session_for_borrowing over the payment rows
\* pays; up says whether the processor answers the create call.
EnsureSession(bid, pays, sid, up) ==
    LET pending == {p \in pays : p.borrowing = bid /\ p.status = "PENDING"}
    IN IF pending = {}
       THEN [error |-> "none", payments |-> pays, sessions |-> sessions]
       ELSE IF GetTypeDisplayRaises
       THEN [error |-> "AttributeError", payments |-> pays,
             sessions |-> sessions]
       ELSE IF ~up
       THEN [error |-> "StripeError", payments |-> pays,
             sessions |-> sessions]
       ELSE [error |-> "ok",
             payments |-> {IF p \in pending
                           THEN [p EXCEPT !.session_id = sid] ELSE p :
                           p \in pays},
             sessions |-> sessions \cup
                 {[id |-> sid, payment_ids |-> NewestFirst(pending),
                   borrowing_id |-> bid, paid |-> FALSE]}]

(* ------------------------------ Return --------------------------------- *)

\* POST /borrowings/{id}/return: get_object() over get_queryset(), then
\* BorrowingReturnSerializer.validate on the row just loaded.
ReturnValidate(w, u, bid) ==
    /\ Accepting(w)
    /\ \E row \in borrowings :
         /\ row.id = bid
         /\ LET r == [Idle EXCEPT !.op = "Return", !.user = u, !.bid = bid,
                                  !.book = row.book, !.inst = << row >>]
            IN IF ~Visible(u, row) THEN Finish(w, r, "NotFound")
               ELSE IF AlreadyReturned(row)
                    THEN Finish(w, r, "AlreadyReturned")
               ELSE IF UnpaidBalance(u, bid)
                    THEN Finish(w, r, "UnpaidBalance")
               ELSE Continue(w, [r EXCEPT !.pc = "update"])
    /\ nreq' = nreq + 1
    /\ UNCHANGED << today, db, bookLock, nextId, total0,
                    catalogue, queue >>

\* BorrowingReturnSerializer.update, lines 367-383: current_date is read,
\* the unpaid check is repeated, and a borrowing with no payment at all
\* takes the automatic-payment path.
ReturnUpdate(w) ==
    /\ req[w].op = "Return" /\ req[w].pc = "update"
    /\ IF UnpaidBalance(req[w].user, req[w].bid)
       THEN Finish(w, req[w], "UnpaidBalance")
       ELSE Continue(w, [req[w] EXCEPT
                           !.date = today,
                           !.pc = IF PaymentsOf(req[w].bid) = {}
                                  THEN "autopay" ELSE "tx"])
    /\ UNCHANGED << today, db, bookLock, nreq, nextId, total0,
                    catalogue, queue >>

\* BorrowingReturnSerializer.update, lines 384-391: PaymentCreateSerializer
\* is_valid() and save(), then the checkout session.  Nothing here is caught:
\* a raise ends the request, and rows already committed stay.
ReturnAutoPay(w) ==
    /\ req[w].op = "Return" /\ req[w].pc = "autopay"
    /\ \E up \in BOOLEAN :
         LET v == PaymentValidate(req[w].user, req[w].bid)
             c == SerializerCreate(Row(req[w].bid))
             e == EnsureSession(req[w].bid, c.payments, nextId + 2, up)
         IN IF v # "ok"
            THEN /\ Finish(w, req[w], v)
                 /\ UNCHANGED << payments, sessions, nextId >>
            ELSE IF c.error # "ok"
            THEN /\ Finish(w, req[w], c.error)
                 /\ UNCHANGED << payments, sessions, nextId >>
            ELSE /\ payments' = e.payments
                 /\ sessions' = e.sessions
                 /\ nextId' = nextId + 3
                 /\ IF e.error = "ok"
                    THEN Continue(w, [req[w] EXCEPT !.pc = "tx"])
                    ELSE Finish(w, req[w], e.error)
    /\ UNCHANGED << today, inventory, borrowings, bookLock, nreq, total0,
                    catalogue, queue >>

\* BorrowingReturnSerializer.update, the transaction up to its commit:
\* select_for_update on the book row (Book.DoesNotExist when it is gone).
ReturnLock(w) ==
    /\ req[w].op = "Return" /\ req[w].pc = "tx"
    /\ bookLock[req[w].book] = 0
    /\ IF req[w].book \notin catalogue
       THEN /\ Finish(w, req[w], "BookDoesNotExist")
            /\ UNCHANGED bookLock
       ELSE /\ bookLock' = [bookLock EXCEPT ![req[w].book] = w]
            /\ Continue(w, [req[w] EXCEPT !.pc = "commit",
                                          !.inv = inventory[req[w].book]])
    /\ UNCHANGED << today, db, nreq, nextId, total0, catalogue, queue >>

\* Mutant: two copies come back.
release_ByTwo(inv) == inv + 2

\* book.inventory += 1
release(inv) == inv + 1

\* The commit: book.inventory += 1; book.save();
\* instance.actual_return_date = current_date; instance.save(), which
\* writes every column of the instance loaded by get_object(); then, the
\* transaction over, send_return_notification.delay(id), whose raise
\* reaches the caller with the writes in place.
ReturnCommit(w) ==
    /\ req[w].op = "Return" /\ req[w].pc = "commit"
    /\ inventory' = [inventory EXCEPT ![req[w].book] = release(req[w].inv)]
    /\ borrowings' =
          {r \in borrowings : r.id # req[w].bid} \cup
          {[req[w].inst[1] EXCEPT !.actual_return_date = << req[w].date >>]}
    /\ bookLock' = Unlock(req[w].book)
    /\ \E sent \in BOOLEAN :
         IF sent
         THEN /\ queue' = queue \cup {Task("return", req[w].bid)}
              /\ Finish(w, req[w], "Returned")
         ELSE /\ UNCHANGED queue
              /\ Finish(w, req[w], "DispatchError")
    /\ UNCHANGED << today, payments, sessions, nreq, nextId, total0,
                    catalogue >>

(* ------------------------------ CreatePayment -------------------------- *)

\* POST /payments: serializer.is_valid()
PaymentCreateValidate(w, u, bid) ==
    /\ Accepting(w)
    /\ \E row \in borrowings :
         /\ row.id = bid
         /\ LET r == [Idle EXCEPT !.op = "CreatePayment", !.user = u,
                                  !.bid = bid, !.book = row.book,
                                  !.inst = << row >>]
                v == PaymentValidate(u, bid)
            IN IF v # "ok" THEN Finish(w, r, v)
               ELSE Continue(w, [r EXCEPT !.pc = "create"])
    /\ nreq' = nreq + 1
    /\ UNCHANGED << today, db, bookLock, nextId, total0,
                    catalogue, queue >>

\* PaymentViewSet.create after is_valid(): serializer.save(), whose raise
\* is not caught; then, inside try, the checkout session and the response,
\* with payment.delete() of the rental row in the except branch.
PaymentCreate(w) ==
    /\ req[w].op = "CreatePayment" /\ req[w].pc = "create"
    /\ \E up \in BOOLEAN :
         LET c == SerializerCreate(req[w].inst[1])
             e == EnsureSession(req[w].bid, c.payments, nextId + 2, up)
             deleted == {p \in e.payments : p.id # nextId}
         IN IF c.error # "ok"
            THEN /\ Finish(w, req[w], c.error)
                 /\ UNCHANGED << payments, sessions, nextId >>
            ELSE /\ sessions' = e.sessions
                 /\ nextId' = nextId + 3
                 /\ IF e.error \in {"ok", "none"} /\ ~PaymentSerializerRaises
                    THEN /\ payments' = e.payments
                         /\ Finish(w, req[w], "PaymentCreated")
                    ELSE /\ payments' = deleted
                         /\ Finish(w, req[w], "PaymentGatewayError")
    /\ UNCHANGED << today, inventory, borrowings, bookLock, nreq, total0,
                    catalogue, queue >>

(* ------------------------------ ConfirmPayment ------------------------- *)

\* StripeService.retrieve_session: the processor's record of the session,
\* or a raise when the processor does not answer or knows no such session.
RetrieveRaises(sid, up) == ~up \/ ~(\E s \in sessions : s.id = sid)

\* Mutant: every session the processor knows counts as paid.
is_session_paid_Unchecked(sid, up) == \E s \in sessions : s.id = sid

\* StripeService.is_session_paid: any raise is turned into False.
is_session_paid(sid, up) ==
    /\ ~RetrieveRaises(sid, up)
    /\ \E s \in sessions : s.id = sid /\ s.paid

SeqToSet(q) == {q[i] : i \in 1..Len(q)}

\* The ids PaymentViewSet.success marks PAID: those of the session's
\* metadata, or, when that list is empty, of the rows sharing session_id.
ConfirmedIds(sid) ==
    LET s == CHOOSE x \in sessions : x.id = sid
    IN IF s.payment_ids # << >> THEN SeqToSet(s.payment_ids)
       ELSE {p.id : p \in {x \in payments : x.session_id = sid}}

\* Mutant: the update flips the status.
MarkPaid_Toggle(p) ==
    [p EXCEPT !.status = IF p.status = "PAID" THEN "PENDING" ELSE "PAID"]

\* Payment.objects.filter(id__in=payment_ids).update(status=PAID), per row.
MarkPaid(p) == [p EXCEPT !.status = "PAID"]

\* GET /payments/success?session_id=sid; sid = 0 stands for a request
\* without the parameter.
ConfirmPayment(w, sid, up1, up2) ==
    /\ Accepting(w)
    /\ LET asked == sid # 0 /\ \E p \in payments : p.session_id = sid
           raised == \/ RetrieveRaises(sid, up1)
                     \/ is_session_paid(sid, up1) /\ RetrieveRaises(sid, up2)
           r == [Idle EXCEPT !.op = "ConfirmPayment", !.sid = sid,
                             !.gateway = IF ~asked THEN "-"
                                         ELSE IF raised THEN "failed"
                                         ELSE "ok"]
       IN IF sid = 0
          THEN /\ Finish(w, r, "SessionIdRequired")
               /\ UNCHANGED payments
          ELSE IF ~(\E p \in payments : p.session_id = sid)
          THEN /\ Finish(w, r, "NotFound")
               /\ UNCHANGED payments
          ELSE IF ~is_session_paid(sid, up1)
          THEN /\ Finish(w, r, "NotCompleted")
               /\ UNCHANGED payments
          ELSE IF RetrieveRaises(sid, up2)
          THEN /\ Finish(w, r, "ProcessingError")
               /\ UNCHANGED payments
          ELSE /\ payments' = {IF p.id \in ConfirmedIds(sid)
                               THEN MarkPaid(p) ELSE p :
                               p \in payments}
               /\ Finish(w, r, "Paid")
    /\ nreq' = nreq + 1
    /\ UNCHANGED << today, inventory, borrowings, sessions, bookLock, nextId,
                    total0,
                    catalogue, queue >>

(* ------------------------------ RetrievePayment ------------------------ *)

\* GET /payments/{id}: get_object() over get_queryset(); for a PAID
\* payment the checkout session of the borrowing's PENDING payments is
\* renewed first, and any raise of that is answered with an error that
\* carries the text of the exception.
RetrievePayment(w, u, pid) ==
    /\ Accepting(w)
    /\ \E p \in payments, up \in BOOLEAN :
         /\ p.id = pid
         /\ LET r == [Idle EXCEPT !.op = "RetrievePayment", !.user = u,
                                  !.bid = p.borrowing, !.pid = pid]
                e == EnsureSession(p.borrowing, payments, nextId, up)
            IN IF ~Visible(u, Row(p.borrowing))
               THEN /\ Finish(w, r, "NotFound")
                    /\ UNCHANGED << payments, sessions, nextId >>
               ELSE IF p.status # "PAID" \/ e.error = "none"
               THEN /\ Finish(w, r, "Retrieved")
                    /\ UNCHANGED << payments, sessions, nextId >>
               ELSE IF e.error = "ok"
               THEN /\ payments' = e.payments
                    /\ sessions' = e.sessions
                    /\ nextId' = nextId + 1
                    /\ Finish(w, r, "Retrieved")
               ELSE /\ Finish(w, r, IF e.error = "StripeError"
                                     THEN "LinkUpdateStripeError"
                                     ELSE "LinkUpdateAttributeError")
                    /\ UNCHANGED << payments, sessions, nextId >>
    /\ nreq' = nreq + 1
    /\ UNCHANGED << today, inventory, borrowings, bookLock, total0,
                    catalogue, queue >>

(* ------------------------------ ListBorrowings ------------------------- *)

\* Values of the is_active query parameter: absent (or anything else),
\* "true", "false".
IsActiveParams == {"none", "true", "false"}

\* BorrowingViewSet.get_queryset
BorrowingQueryset(u, f) ==
    {r \in borrowings :
        /\ Visible(u, r)
        /\ f = "true" => r.actual_return_date = NULL
        /\ f = "false" => r.actual_return_date # NULL}

\* GET /borrowings
ListBorrowings(w, u, f) ==
    /\ Accepting(w)
    /\ Finish(w, [Idle EXCEPT !.op = "ListBorrowings", !.user = u,
                              !.rows = {r.id : r \in BorrowingQueryset(u, f)}],
              "Listed")
    /\ nreq' = nreq + 1
    /\ UNCHANGED << today, db, bookLock, nextId, total0, catalogue, queue >>

(* ------------------------------ update and destroy of a borrowing ----- *)

\* PUT or PATCH /borrowings/{id}, inherited from ModelViewSet: get_object()
\* over get_queryset(), then BorrowingSerializer, whose book field is
\* writable and which has no validate(); save() writes the row.  The
\* request names book b and leaves the other writable fields as they are.
UpdateBorrowing(w, u, bid, b) ==
    /\ Accepting(w)
    /\ \E row \in borrowings :
         /\ row.id = bid
         /\ LET r == [Idle EXCEPT !.op = "UpdateBorrowing", !.user = u,
                                  !.bid = bid, !.book = b]
            IN IF ~Visible(u, row)
               THEN /\ Finish(w, r, "NotFound")
                    /\ UNCHANGED borrowings
               ELSE IF b \notin catalogue
               THEN /\ Finish(w, r, "InvalidBook")
                    /\ UNCHANGED borrowings
               ELSE /\ borrowings' = (borrowings \ {row})
                                        \cup {[row EXCEPT !.book = b]}
                    /\ Finish(w, r, "Updated")
    /\ nreq' = nreq + 1
    /\ UNCHANGED << today, inventory, payments, sessions, bookLock, nextId,
                    total0, catalogue, queue >>

\* DELETE /borrowings/{id}, inherited from ModelViewSet: get_object() over
\* get_queryset(), then instance.delete(), which takes the borrowing's
\* Payments with it (on_delete=CASCADE).
DestroyBorrowing(w, u, bid) ==
    /\ Accepting(w)
    /\ \E row \in borrowings :
         /\ row.id = bid
         /\ LET r == [Idle EXCEPT !.op = "DestroyBorrowing", !.user = u,
                                  !.bid = bid, !.book = row.book]
            IN IF ~Visible(u, row)
               THEN /\ Finish(w, r, "NotFound")
                    /\ UNCHANGED << borrowings, payments >>
               ELSE /\ borrowings' = borrowings \ {row}
                    /\ payments' = {p \in payments : p.borrowing # bid}
                    /\ Finish(w, r, "Deleted")
    /\ nreq' = nreq + 1
    /\ UNCHANGED << today, inventory, sessions, bookLock, nextId, total0,
                    catalogue, queue >>

(* ------------------------------ DestroyBook ---------------------------- *)

\* instance.borrowings.filter(actual_return_date__isnull=True).exists()
HasActiveBorrowings(b) == \E r \in borrowings : r.book = b /\ is_active(r)

\* active_borrowings.count() in the refusal's text: active_borrowings is
\* the bool that exists() returned, and a bool has no attribute count.
ActiveBorrowingsCountRaises == TRUE

\* DELETE /books/{id}: IsAdminUser, get_object(), the active-borrowings
\* check.
DestroyCheck(w, u, b) ==
    /\ Accepting(w)
    /\ LET r == [Idle EXCEPT !.op = "DestroyBook", !.user = u, !.book = b]
       IN IF ~IsStaff(u) THEN Finish(w, r, "Forbidden")
          ELSE IF b \notin catalogue THEN Finish(w, r, "NotFound")
          ELSE IF HasActiveBorrowings(b)
          THEN Finish(w, r, IF ActiveBorrowingsCountRaises
                            THEN "AttributeError" ELSE "BookInUse")
          ELSE Continue(w, [r EXCEPT !.pc = "delete"])
    /\ nreq' = nreq + 1
    /\ UNCHANGED << today, db, bookLock, nextId, total0, catalogue, queue >>

\* super().destroy(): instance.delete(), which waits for the book's row
\* lock and takes the book's Borrowings and their Payments with it
\* (on_delete=CASCADE).
DestroyDelete(w) ==
    /\ req[w].op = "DestroyBook" /\ req[w].pc = "delete"
    /\ bookLock[req[w].book] = 0
    /\ catalogue' = catalogue \ {req[w].book}
    /\ borrowings' = {r \in borrowings : r.book # req[w].book}
    /\ payments' =
          {p \in payments :
              \A r \in borrowings : r.id = p.borrowing => r.book # req[w].book}
    /\ Finish(w, req[w], "Deleted")
    /\ UNCHANGED << today, inventory, sessions, bookLock, nreq, nextId,
                    total0, queue >>

(* ------------------------------ notifier ------------------------------- *)

\* The worker runs a dispatched task: it looks its row up and, if the row
\* is there, sends the message; Borrowing.DoesNotExist is passed over and
\* send_message turns every failure of the delivery into False.  Whatever
\* the outcome, no row changes.
RunTask(t) ==
    /\ t \in queue
    /\ queue' = queue \ {t}
    /\ UNCHANGED << today, db, bookLock, req, last, nreq, nextId, total0,
                    catalogue >>

(* ------------------------------ environment ---------------------------- *)

\* The customer completes the checkout at the processor.
CustomerPays(sid) ==
    /\ \E s \in sessions : s.id = sid /\ ~s.paid
    /\ sessions' = {IF s.id = sid THEN [s EXCEPT !.paid = TRUE] ELSE s :
                    s \in sessions}
    /\ UNCHANGED << today, inventory, borrowings, payments, bookLock, req,
                    last, nreq, nextId, total0,
                    catalogue, queue >>

\* Midnight.
Tick ==
    /\ today < MaxDay
    /\ today' = today + 1
    /\ UNCHANGED << db, bookLock, req, last, nreq, nextId, total0,
                    catalogue, queue >>

(* ------------------------------ specification -------------------------- *)

BorrowingIds == {r.id : r \in borrowings}
PaymentIds == {p.id : p \in payments}
SessionIds == {s.id : s \in sessions}

Next ==
    \/ \E w \in Workers, u \in Borrowers, b \in Books,
          off \in ExpectedOffsets :
         CreateValidate(w, u, b, off)
    \/ \E w \in Workers : CreateLock(w)
    \/ \E w \in Workers : CreateCommit(w)
    \/ \E w \in Workers, u \in Users, bid \in BorrowingIds :
         ReturnValidate(w, u, bid)
    \/ \E w \in Workers : ReturnUpdate(w)
    \/ \E w \in Workers : ReturnAutoPay(w)
    \/ \E w \in Workers : ReturnLock(w)
    \/ \E w \in Workers : ReturnCommit(w)
    \/ \E w \in Workers, u \in Users, bid \in BorrowingIds :
         PaymentCreateValidate(w, u, bid)
    \/ \E w \in Workers : PaymentCreate(w)
    \/ \E w \in Workers, sid \in SessionIds \cup {0},
          up1 \in BOOLEAN, up2 \in BOOLEAN :
         ConfirmPayment(w, sid, up1, up2)
    \/ \E w \in Workers, u \in Users, pid \in PaymentIds :
         RetrievePayment(w, u, pid)
    \/ \E w \in Workers, u \in Users, f \in IsActiveParams :
         ListBorrowings(w, u, f)
    \/ \E w \in Workers, u \in Users, bid \in BorrowingIds, b \in Books :
         UpdateBorrowing(w, u, bid, b)
    \/ \E w \in Workers, u \in Users, bid \in BorrowingIds :
         DestroyBorrowing(w, u, bid)
    \/ \E w \in Workers, u \in Users, b \in Books : DestroyCheck(w, u, b)
    \/ \E w \in Workers : DestroyDelete(w)
    \/ \E t \in queue : RunTask(t)
    \/ \E sid \in SessionIds : CustomerPays(sid)
    \/ Tick

Spec == Init /\ [][Next]_vars

(* ------------------------------ payment calculator alone --------------- *)

\* One borrowing, of either book, entered on some day for some window, on
\* some later day; nothing else on the books.
CalcInit ==
    /\ \E b \in Books, d \in 0..MaxCalcBorrow, n \in 0..MaxCalcWindow :
          /\ borrowings = {Borrowing(1, "alice", b, d, d + n)}
          /\ today \in d..MaxCalcDay
    /\ inventory = [b \in Books |-> 0]
    /\ payments = {}
    /\ sessions = {}
    /\ bookLock = [b \in Books |-> 0]
    /\ req = [w \in Workers |-> Idle]
    /\ last = Response(Idle, "-")
    /\ nreq = 0
    /\ nextId = 2
    /\ total0 = [b \in Books |-> ActiveCount(borrowings, b)]
    /\ catalogue = Books
    /\ queue = {}

\* PaymentCreateSerializer.create, lines 208-231: the amounts it computes
\* for the borrowing, as the rows it hands to Payment.objects.create.
CalculatePayments ==
    /\ payments = {}
    /\ payments' = NewPayments(Row(1), nextId, today)
    /\ nextId' = nextId + 2
    /\ UNCHANGED << today, inventory, borrowings, sessions, bookLock, req,
                    last, nreq, total0,
                    catalogue, queue >>

CalcNext == CalculatePayments

CalcSpec == CalcInit /\ [][CalcNext]_vars

\* The interleavings of Create and Return requests alone.
LifecycleNext ==
    \/ \E w \in Workers, u \in Borrowers, b \in Books,
          off \in ExpectedOffsets :
         CreateValidate(w, u, b, off)
    \/ \E w \in Workers : CreateLock(w)
    \/ \E w \in Workers : CreateCommit(w)
    \/ \E w \in Workers, u \in Users, bid \in BorrowingIds :
         ReturnValidate(w, u, bid)
    \/ \E w \in Workers : ReturnUpdate(w)
    \/ \E w \in Workers : ReturnAutoPay(w)
    \/ \E w \in Workers : ReturnLock(w)
    \/ \E w \in Workers : ReturnCommit(w)
    \/ \E t \in queue : RunTask(t)
    \/ Tick

LifecycleSpec == Init /\ [][LifecycleNext]_vars

(* ------------------------------ scheduling ----------------------------- *)

\* The step of a request that worker w has taken and not yet answered.
Step(w) ==
    \/ CreateLock(w) \/ CreateCommit(w)
    \/ ReturnUpdate(w) \/ ReturnAutoPay(w) \/ ReturnLock(w) \/ ReturnCommit(w)
    \/ PaymentCreate(w)
    \/ DestroyDelete(w)

\* A request handler that can go on does go on: the server runs every
\* handler thread, and the database wakes a handler that waits for a row
\* lock when the lock is free.
LiveSpec == Spec /\ \A w \in Workers : WF_vars(Step(w))

(* ------------------------------ steps, as the claims see them ---------- *)

\* The step accepts a Create request of user u for book b.
CreateArrives(u, b) ==
    /\ nreq' = nreq + 1
    /\ \/ req' = req /\ last'.op = "Create" /\ last'.user = u /\ last'.book = b
       \/ \E w \in Workers :
            /\ req[w].op = "idle" /\ req'[w].op = "Create"
            /\ req'[w].user = u /\ req'[w].book = b

\* The step accepts a Return request of user u for borrowing bid.
ReturnArrives(u, bid) ==
    /\ nreq' = nreq + 1
    /\ \/ req' = req /\ last'.op = "Return" /\ last'.user = u /\ last'.bid = bid
       \/ \E w \in Workers :
            /\ req[w].op = "idle" /\ req'[w].op = "Return"
            /\ req'[w].user = u /\ req'[w].bid = bid

\* The step accepts a CreatePayment request of user u for borrowing bid.
PaymentArrives(u, bid) ==
    /\ nreq' = nreq + 1
    /\ \/ /\ req' = req /\ last'.op = "CreatePayment"
          /\ last'.user = u /\ last'.bid = bid
       \/ \E w \in Workers :
            /\ req[w].op = "idle" /\ req'[w].op = "CreatePayment"
            /\ req'[w].user = u /\ req'[w].bid = bid

\* The request that arrives in this step is answered in it, with result,
\* and no row changes.
RejectedWith(result) ==
    /\ req' = req
    /\ last'.result = result
    /\ inventory' = inventory
    /\ borrowings' = borrowings
    /\ payments' = payments

\* Worker w ends its request in this step.
Ends(w, op) == req[w].op = op /\ req'[w].op = "idle"

\* Answers of a Return whose transaction has committed: the second one
\* when the return notification could not be dispatched afterwards.
ReturnCommitted == {"Returned", "DispatchError"}

(* ------------------------------ claims --------------------------------- *)

\* C1: for every book, in every state reachable by any interleaving of
\* Create and Return requests, the inventory is >= 0.
C1_InventoryNonNegative == \A b \in Books : inventory[b] >= 0

\* C1 witness: a Create took the last copy of a book while another Create
\* for the same book is about to take the row lock.
C1_Witness ==
    \E b \in Books, w \in Workers :
        /\ inventory[b] = 0
        /\ last.op = "Create" /\ last.result = "Created" /\ last.book = b
        /\ req[w].op = "Create" /\ req[w].pc = "create" /\ req[w].book = b

\* C2: for every (user, book) pair, in every reachable state, at most one
\* Borrowing with actual_return_date = null exists.
C2_OneActivePerUserAndBook ==
    \A u \in Users, b \in Books : Cardinality(ActiveBorrowingsOf(u, b)) <= 1

\* C3: for every book on the catalogue, inventory + number of ACTIVE
\* borrowings of the book equals its initial value in every reachable state.
C3_InventoryConserved ==
    \A b \in catalogue : inventory[b] + ActiveCount(borrowings, b) = total0[b]

C5_Scenario ==
    [][\A w \in Workers :
          /\ (Ends(w, "Create") /\ req[w].pc = "commit"
                /\ daily_fee(req[w].book) = 200 /\ inventory[req[w].book] = 1)
             => inventory'[req[w].book] = 0
          /\ (Ends(w, "CreatePayment") /\ req[w].pc = "create"
                /\ req[w].inst[1].user = req[w].user
                /\ daily_fee(req[w].book) = 200
                /\ req[w].inst[1].expected_return_date
                     - req[w].inst[1].borrow_date = 5
                /\ PaymentsOf(req[w].bid) = {})
             => \E p \in payments' :
                   /\ p.payment_type = "PAYMENT" /\ p.status = "PENDING"
                   /\ p.money_to_pay = 1000
                   /\ {q \in payments' : q.borrowing = req[w].bid} = {p}
          /\ \A u \in Users \ {"staff"}, bid \in BorrowingIds :
                (ReturnArrives(u, bid) /\ Row(bid).user = u
                   /\ is_active(Row(bid)) /\ PendingPayments(bid) # {})
                => RejectedWith("UnpaidBalance")
          /\ (Ends(w, "Return") /\ req[w].pc = "commit"
                /\ req[w].date = today)
             => /\ inventory'[req[w].book] = inventory[req[w].book] + 1
                /\ \E r \in borrowings' :
                      r.id = req[w].bid /\ r.actual_return_date = << today >>
                /\ last'.result \in ReturnCommitted]_vars

\* C6: Create for a book whose inventory is 0 fails with OutOfStock, leaves
\* the inventory at 0 and inserts no Borrowing row.
C6_OutOfStockAborts ==
    [][\A w \in Workers :
          (req[w].op = "Create" /\ req[w].pc = "create" /\ req'[w] # req[w]
             /\ req[w].book \in catalogue /\ inventory[req[w].book] = 0)
          => /\ req'[w].op = "idle"
             /\ last' = Response(req[w], "OutOfStock")
             /\ inventory' = inventory
             /\ borrowings' = borrowings
             /\ bookLock' = bookLock]_vars

\* C6 witness: a Create was answered OutOfStock for a book with no copy.
C6_Witness ==
    /\ last.op = "Create" /\ last.result = "OutOfStock"
    /\ inventory[last.book] = 0

\* C7: Return requested by the non-privileged owner of an ACTIVE borrowing
\* that has a PENDING Payment fails with UnpaidBalance and changes nothing.
C7_UnpaidReturnRejected ==
    [][\A u \in Users, bid \in BorrowingIds :
          (ReturnArrives(u, bid) /\ ~IsStaff(u) /\ Row(bid).user = u
             /\ is_active(Row(bid))
             /\ \E p \in payments : p.borrowing = bid /\ p.status = "PENDING")
          => RejectedWith("UnpaidBalance")]_vars

\* C7 witness: the owner's Return of an ACTIVE borrowing with a PENDING
\* payment was answered UnpaidBalance.
C7_Witness ==
    /\ last.op = "Return" /\ last.result = "UnpaidBalance"
    /\ ~IsStaff(last.user)
    /\ \E r \in borrowings :
          r.id = last.bid /\ r.user = last.user /\ is_active(r)
    /\ \E p \in payments : p.borrowing = last.bid /\ p.status = "PENDING"

\* C8: Return requested by staff for an ACTIVE borrowing that has a PENDING
\* Payment succeeds: it is not rejected on arrival, it ends only by
\* committing, and the commit sets the return date, adds 1 to the book's
\* inventory and leaves every Payment as it is.
C8_StaffReturnSucceeds ==
    [][/\ \A bid \in BorrowingIds :
             (ReturnArrives("staff", bid) /\ is_active(Row(bid))
                /\ \E p \in payments :
                      p.borrowing = bid /\ p.status = "PENDING")
             => \E w \in Workers :
                   /\ req[w].op = "idle" /\ req'[w].op = "Return"
                   /\ req'[w].user = "staff" /\ req'[w].bid = bid
       /\ \A w \in Workers :
             (Ends(w, "Return") /\ IsStaff(req[w].user)
                /\ \E p \in payments :
                      p.borrowing = req[w].bid /\ p.status = "PENDING")
             => /\ last'.result \in ReturnCommitted
                /\ inventory' = [inventory EXCEPT
                                   ![req[w].book] = inventory[req[w].book] + 1]
                /\ \E r \in borrowings' :
                      r.id = req[w].bid /\ ~is_active(r)
                /\ payments' = payments]_vars

\* C8 witness: a staff Return has committed for a borrowing that still has
\* a PENDING payment.
C8_Witness ==
    /\ last.op = "Return" /\ last.result = "Returned" /\ IsStaff(last.user)
    /\ \E p \in payments : p.borrowing = last.bid /\ p.status = "PENDING"
    /\ \E r \in borrowings : r.id = last.bid /\ ~is_active(r)

\* C9: Return of a borrowing whose actual_return_date is already set fails
\* with AlreadyReturned, for its owner and for staff alike, and leaves the
\* inventory and the return date unchanged (any other user is answered
\* NotFound, with the same frame).
C9_AlreadyReturnedRejected ==
    [][\A u \in Users, bid \in BorrowingIds :
          (ReturnArrives(u, bid) /\ ~is_active(Row(bid)))
          => IF Visible(u, Row(bid)) THEN RejectedWith("AlreadyReturned")
             ELSE RejectedWith("NotFound")]_vars

\* C9 witness: a Return of a returned borrowing was answered
\* AlreadyReturned.
C9_Witness ==
    /\ last.op = "Return" /\ last.result = "AlreadyReturned"
    /\ \E r \in borrowings : r.id = last.bid /\ ~is_active(r)

\* C10: Create by a user who holds an ACTIVE borrowing of the book is
\* rejected with DuplicateActiveBorrowing (InvalidDate if the date is in the
\* past too) and changes no row; when the user's borrowings of the book are
\* all returned, a Create with a valid date passes validation.
C10_DuplicateRejectedUntilReturned ==
    [][\A u \in Users, b \in Books :
          /\ (CreateArrives(u, b)
                /\ \E r \in borrowings :
                      r.user = u /\ r.book = b /\ is_active(r))
             => \/ /\ RejectedWith("DuplicateActiveBorrowing")
                   /\ last'.expected >= today
                \/ /\ RejectedWith("InvalidDate")
                   /\ last'.expected < today
          /\ (CreateArrives(u, b)
                /\ (\E r \in borrowings : r.user = u /\ r.book = b)
                /\ \A r \in borrowings :
                      (r.user = u /\ r.book = b) => ~is_active(r))
             => \/ RejectedWith("InvalidDate") /\ last'.expected < today
                \/ \E w \in Workers :
                      /\ req[w].op = "idle" /\ req'[w].pc = "create"
                      /\ req'[w].expected >= today]_vars

\* C10 witness: a user with a returned borrowing of a book holds a new
\* ACTIVE borrowing of it, committed by the Create answered last.
C10_Witness ==
    /\ last.op = "Create" /\ last.result = "Created"
    /\ \E r \in borrowings :
          r.user = last.user /\ r.book = last.book /\ ~is_active(r)
    /\ \E r \in borrowings :
          r.id = last.bid /\ r.user = last.user /\ is_active(r)

\* C11: Create with expected_return_date earlier than today is rejected
\* with InvalidDate and changes neither any inventory nor any Borrowing row
\* (nor any Payment); Create with expected_return_date equal to today is
\* not rejected with InvalidDate: it goes on to the other checks.
C11_PastDateRejected ==
    [][\A u \in Users, b \in Books :
          CreateArrives(u, b) =>
             /\ (req' = req /\ last'.expected < today)
                => RejectedWith("InvalidDate")
             /\ (req' = req /\ last'.expected >= today)
                => /\ last'.result \in
                         {"DuplicateActiveBorrowing", "InvalidBook"}
                   /\ RejectedWith(last'.result)
             /\ \A w \in Workers :
                   (req[w].op = "idle" /\ req'[w].op = "Create")
                   => /\ req'[w].expected >= today
                      /\ inventory' = inventory
                      /\ borrowings' = borrowings]_vars

\* C11 witness: a Create dated yesterday was answered InvalidDate after a
\* Create dated today went through to its commit.
C11_Witness ==
    /\ last.op = "Create" /\ last.result = "InvalidDate"
    /\ last.expected < today
    /\ \E r \in borrowings :
          r.id # 1 /\ r.expected_return_date = r.borrow_date

\* C12: a successful Create decreases the chosen book's inventory by
\* exactly 1 and inserts exactly one ACTIVE Borrowing of (requesting user,
\* book) in one step, leaving every other inventory, every other Borrowing
\* and every Payment as they are; and no step shows one half without the
\* other: an inventory goes down in a step exactly when a new Borrowing of
\* that book appears in it as an active row.
C12_CreateAtomic ==
    [][/\ \A w \in Workers :
             (Ends(w, "Create") /\ last'.result = "Created")
             => /\ inventory' =
                      [inventory EXCEPT
                          ![req[w].book] = inventory[req[w].book] - 1]
                /\ \E r \in borrowings' :
                      /\ r.id \notin BorrowingIds
                      /\ borrowings' = borrowings \cup {r}
                      /\ r.user = req[w].user /\ r.book = req[w].book
                      /\ is_active(r)
                /\ payments' = payments
       /\ \A b \in Books :
             (inventory'[b] < inventory[b])
             <=> \E r \in borrowings' :
                    r.id \notin BorrowingIds /\ r.book = b /\ is_active(r)]_vars

\* C12 witness: a Create has committed while another request for the same
\* book was in progress, with a Payment on the books.
C12_Witness ==
    /\ last.op = "Create" /\ last.result = "Created"
    /\ \E r \in borrowings : r.id = last.bid /\ is_active(r)
    /\ \E w \in Workers : req[w].op # "idle" /\ req[w].book = last.book
    /\ payments # {}

C14_RentalAmount ==
    \A p \in payments, r \in borrowings :
        (p.payment_type = "PAYMENT" /\ p.borrowing = r.id)
        => LET days == r.expected_return_date - r.borrow_date
               fee == daily_fee(r.book)
           IN /\ days >= 0
              /\ days >= 1 => p.money_to_pay = fee * days
              /\ days = 0 => p.money_to_pay = fee
              /\ (fee = 200 /\ days = 5) => p.money_to_pay = 1000
              /\ (fee = 150 /\ days = 0) => p.money_to_pay = 150

\* C14 witness: the amount for a same-day window at fee 1.50 was computed.
C14_Witness ==
    \E p \in payments, r \in borrowings :
        /\ p.payment_type = "PAYMENT" /\ p.borrowing = r.id
        /\ r.expected_return_date = r.borrow_date
        /\ daily_fee(r.book) = 150 /\ p.money_to_pay = 150

ManifestOf(sid) == SeqToSet((CHOOSE s \in sessions : s.id = sid).payment_ids)

\* C16: the round trip, leg by leg.  (1) ensure_session, called (here by
\* the retrieval of a PAID Payment) for a borrowing whose PENDING Payments
\* are S, creates a session whose manifest is S, unless the processor does
\* not answer; (2) a ConfirmPayment
\* answered Paid names a session the processor reports paid, and sets
\* exactly the Payments of its manifest to PAID, changing no other Payment;
\* (3) a ConfirmPayment for a paid session whose Payments are all PAID
\* already is not answered with an error other than the processor being
\* away, and leaves every row as it is.
C16_RoundTrip ==
    [][/\ \A bid \in BorrowingIds :
             (nreq' = nreq + 1 /\ req' = req
                /\ last'.op = "RetrievePayment"
                /\ last'.bid = bid /\ last'.result # "NotFound"
                /\ (\E p \in PaymentsOf(bid) :
                      p.id = last'.pid /\ p.status = "PAID")
                /\ PendingPayments(bid) # {})
             => \/ last'.result = "LinkUpdateStripeError"
                \/ /\ last'.result = "Retrieved"
                   /\ \E s \in sessions' \ sessions :
                         SeqToSet(s.payment_ids) =
                            {p.id : p \in PendingPayments(bid)}
       /\ \A sid \in SessionIds :
             (nreq' = nreq + 1 /\ req' = req
                /\ last'.op = "ConfirmPayment"
                /\ last'.sid = sid)
             => /\ last'.result = "Paid"
                   => /\ \E s \in sessions : s.id = sid /\ s.paid
                      /\ payments' =
                            {IF p.id \in ManifestOf(sid)
                             THEN [p EXCEPT !.status = "PAID"] ELSE p :
                             p \in payments}
                /\ last'.result # "Paid" => payments' = payments
                /\ ((\E s \in sessions : s.id = sid /\ s.paid)
                      /\ (\E p \in payments : p.session_id = sid)
                      /\ \A p \in payments :
                            p.id \in ManifestOf(sid) => p.status = "PAID")
                   => /\ last'.result \in
                            {"Paid", "NotCompleted", "ProcessingError"}
                      /\ payments' = payments
                      /\ sessions' = sessions]_vars

C18_DuplicatePendingRejected ==
    [][\A u \in Users, bid \in BorrowingIds :
          (PaymentArrives(u, bid)
             /\ \E p \in payments, r \in borrowings :
                   /\ p.status = "PENDING" /\ p.payment_type = "PAYMENT"
                   /\ p.borrowing = r.id
                   /\ r.user = Row(bid).user /\ r.book = Row(bid).book)
          => IF Visible(u, Row(bid))
             THEN RejectedWith("DuplicatePendingPayment")
             ELSE RejectedWith("InvalidBorrowing")]_vars

\* C18 witness: a CreatePayment was answered DuplicatePendingPayment on
\* account of a PENDING payment of an earlier borrowing of the same user
\* and book.
C18_Witness ==
    /\ last.op = "CreatePayment"
    /\ last.result = "DuplicatePendingPayment"
    /\ PaymentsOf(last.bid) = {}
    /\ \E p \in payments, r \in borrowings :
          /\ p.status = "PENDING" /\ p.payment_type = "PAYMENT"
          /\ p.borrowing = r.id /\ r.id # last.bid
          /\ r.user = Row(last.bid).user /\ r.book = Row(last.bid).book

\* C19: Payment status is monotonic: a Payment that is PAID is not PENDING
\* after any step of CreatePayment, ensure_session, ConfirmPayment or
\* Return (or of any other operation).
C19_PaidStaysPaid ==
    [][\A p \in payments, q \in payments' :
          (p.status = "PAID" /\ q.id = p.id) => q.status = "PAID"]_vars

\* C19 witness: the retrieval of a PAID Payment has called ensure_session
\* for its borrowing, which has a PENDING Payment too, and the Payment is
\* still PAID.
C19_Witness ==
    /\ last.op = "RetrievePayment"
    /\ last.result = "LinkUpdateAttributeError"
    /\ \E p \in payments : p.id = last.pid /\ p.status = "PAID"
    /\ PendingPayments(last.bid) # {}

\* C20: in every reachable state, a Payment is PAID only if the processor
\* has reported paid a session that covers it: one whose manifest names it,
\* or, when the manifest is empty, one whose id is the Payment's
\* session_id.
C20_PaidOnlyIfSessionPaid ==
    \A p \in payments :
        p.status = "PAID"
        => \E s \in sessions :
              /\ s.paid
              /\ \/ p.id \in SeqToSet(s.payment_ids)
                 \/ s.payment_ids = << >> /\ p.session_id = s.id

\* C20 witness: a ConfirmPayment for a session the processor reports unpaid
\* was answered NotCompleted after an earlier one, for a paid session, had
\* set its Payment to PAID.
C20_Witness ==
    /\ last.op = "ConfirmPayment" /\ last.result = "NotCompleted"
    /\ \E s \in sessions : s.id = last.sid /\ ~s.paid
    /\ \E p \in payments : p.session_id = last.sid /\ p.status = "PENDING"
    /\ \E p \in payments : p.status = "PAID"

\* C21: when the processor is unreachable or returns an error during
\* ConfirmPayment, the caller is answered with a gateway error, never with
\* 'payment not completed'.
C21_GatewayErrorDistinct ==
    (last.op = "ConfirmPayment" /\ last.gateway = "failed")
    => last.result = "ProcessingError"

\* C22: a CreatePayment that passed validation inserts its rows and goes on
\* to the session creation, so that it ends with the payment created or
\* with a gateway error; and when it ends with a gateway error, no PENDING
\* Payment without a session remains for the borrowing: every row it
\* inserted is deleted and all other state is unchanged.
C22_CompensatingDelete ==
    [][\A w \in Workers :
          (Ends(w, "CreatePayment") /\ req[w].pc = "create")
          => /\ last'.result \in {"PaymentCreated", "PaymentGatewayError"}
             /\ last'.result = "PaymentGatewayError"
                => /\ payments' = payments
                   /\ sessions' = sessions
                   /\ borrowings' = borrowings
                   /\ inventory' = inventory]_vars

C24_DestroyInUseRejected ==
    [][(/\ nreq' = nreq + 1
        /\ req' = req
        /\ last'.op = "DestroyBook"
        /\ IsStaff(last'.user)
        /\ last'.book \in catalogue
        /\ HasActiveBorrowings(last'.book))
       => /\ last'.result = "BookInUse"
          /\ catalogue' = catalogue
          /\ borrowings' = borrowings
          /\ payments' = payments]_vars

\* C25: a requester who is not privileged and does not own a borrowing can
\* neither Return it nor CreatePayment for it: the request is rejected and
\* no Borrowing, Payment or inventory value changes; and the borrowing list
\* of a requester who is not privileged holds only borrowings whose user is
\* the requester.
C25_OwnerOrPrivileged ==
    [][/\ \A u \in Users : \A r \in borrowings :
            (~IsStaff(u) /\ r.user # u)
            => /\ ReturnArrives(u, r.id) => RejectedWith("NotFound")
               /\ PaymentArrives(u, r.id)
                  => /\ last'.result \in {"InvalidBorrowing", "NotOwner"}
                     /\ RejectedWith(last'.result)
       /\ (/\ nreq' = nreq + 1
           /\ last'.op = "ListBorrowings"
           /\ ~IsStaff(last'.user))
          => \A id \in last'.rows :
                \E r \in borrowings : r.id = id /\ r.user = last'.user]_vars

\* A Return of somebody else's borrowing, sent by a requester who is not
\* privileged, has been answered.
C25_Witness ==
    /\ last.op = "Return"
    /\ last.result = "NotFound"
    /\ ~IsStaff(last.user)
    /\ \E r \in borrowings : r.id = last.bid /\ r.user # last.user

\* C26: every Payment that a step takes from PENDING to PAID has a
\* PaymentConfirmed event for its id dispatched to the notifier in that
\* step.
C26_PaymentConfirmedEmitted ==
    [][\A p \in payments : \A q \in payments' :
          (q.id = p.id /\ p.status = "PENDING" /\ q.status = "PAID")
          => Task("payment", p.id) \in queue']_vars

\* C27: a failure of the notifier never aborts or rolls back a Create or a
\* Return.  A Create whose dispatch failed still leaves its Borrowing row
\* and has taken its copy; a Return whose dispatch failed still leaves the
\* row returned and has put the copy back; and the worker's run of a task,
\* delivered or not, changes no Borrowing and no inventory.
C27_NotifierNeverRollsBack ==
    [][/\ \A w \in Workers :
            (Ends(w, "Create") /\ last'.result = "DispatchError")
            => /\ \E r \in borrowings' :
                    /\ r.id = last'.bid /\ r.user = last'.user
                    /\ r.book = last'.book /\ is_active(r)
               /\ inventory'[last'.book] = inventory[last'.book] - 1
       /\ \A w \in Workers :
            (Ends(w, "Return") /\ last'.result = "DispatchError")
            => /\ \E r \in borrowings' :
                    r.id = last'.bid /\ ~is_active(r)
               /\ inventory'[last'.book] = inventory[last'.book] + 1
       /\ (queue' # queue /\ queue' \subseteq queue)
          => borrowings' = borrowings /\ inventory' = inventory]_vars

\* C28: a CreatePayment that passed validation for a borrowing without a
\* PENDING payment completes, unless the processor refuses the session; and
\* a CreatePayment that completes has inserted exactly one PENDING Payment
\* of type PAYMENT for the borrowing, and exactly one PENDING Payment of
\* type FINE if and only if today is later than the borrowing's
\* expected_return_date, and has changed no Borrowing and no inventory.
C28_CreatePaymentRows ==
    [][\A w \in Workers :
          (Ends(w, "CreatePayment") /\ req[w].pc = "create"
             /\ PendingPayments(req[w].bid) = {})
          => LET inserted == {p \in payments' :
                                \A q \in payments : q.id # p.id}
                 ofType(t) == {p \in inserted : p.payment_type = t}
             IN /\ last'.result \in {"PaymentCreated", "PaymentGatewayError"}
                /\ last'.result = "PaymentCreated"
                   => /\ \A p \in inserted :
                           p.borrowing = req[w].bid /\ p.status = "PENDING"
                      /\ Cardinality(ofType("PAYMENT")) = 1
                      /\ Cardinality(ofType("FINE")) =
                            (IF today > req[w].inst[1].expected_return_date
                             THEN 1 ELSE 0)
                      /\ inserted = ofType("PAYMENT") \cup ofType("FINE")
                      /\ borrowings' = borrowings
                      /\ inventory' = inventory]_vars

\* C29: a call of get_or_create_session_for_borrowing for a borrowing with
\* PENDING Payments (made by the retrieval of a PAID Payment of the
\* borrowing) returns a session unless the processor refuses it, and once
\* it has returned, the Payments that carry the session's id are exactly
\* the Payments named in the session's manifest.
C29_SessionCoversManifest ==
    [][(/\ nreq' = nreq + 1
        /\ req' = req
        /\ last'.op = "RetrievePayment"
        /\ \E p \in payments :
              /\ p.id = last'.pid /\ p.status = "PAID"
              /\ Visible(last'.user, Row(p.borrowing))
              /\ PendingPayments(p.borrowing) # {})
       => /\ last'.result \in {"Retrieved", "LinkUpdateStripeError"}
          /\ last'.result = "Retrieved"
             => \E s \in sessions' :
                   /\ s.id \notin {t.id : t \in sessions}
                   /\ s.borrowing_id = last'.bid
                   /\ {p.id : p \in {q \in payments' : q.session_id = s.id}}
                        = SeqToSet(s.payment_ids)]_vars

\* C30: a BorrowingCreated event is emitted only on the commit of the
\* creating transaction.  No event is dispatched for a Create that rolls
\* back: a Create that ends without its row leaves the queue as it was;
\* and the notifier never processes an event whose row is not yet visible:
\* every event it takes from the queue finds its row.
C30_EventOnlyOnCommit ==
    [][/\ \A w \in Workers :
            (Ends(w, "Create") /\ last'.result # "Created")
            => queue' = queue
       /\ \A t \in queue \ queue' :
            t.task = "borrowing" => \E r \in borrowings : r.id = t.id]_vars

\* C31: under fair scheduling every Create and every Return request that a
\* worker has taken is eventually answered, with the worker holding no
\* row lock: no set of concurrent requests blocks one another forever.
C31_RequestsComplete ==
    \A w \in Workers :
        (req[w].op \in {"Create", "Return"})
        ~> (req[w].op = "idle" /\ \A b \in Books : bookLock[b] # w)

\* C31 witness: a Create or Return waits for the row lock of a book while
\* another request holds it.
C31_Witness ==
    \E w \in Workers, v \in Workers :
        /\ w # v
        /\ req[w].op \in {"Create", "Return"}
        /\ req[w].pc \in {"create", "tx"}
        /\ bookLock[req[w].book] = v
        /\ req[v].op \in {"Create", "Return"}

\* C32: whenever a Return commits with a return date later than the
\* borrowing's expected_return_date, a Payment of type FINE exists for the
\* borrowing after the return, whatever Payments it had before.
C32_FineAfterOverdueReturn ==
    [][\A w \in Workers :
          (/\ Ends(w, "Return") /\ req[w].pc = "commit"
           /\ last'.result \in ReturnCommitted
           /\ req[w].date > req[w].inst[1].expected_return_date)
          => \E p \in payments' :
                p.borrowing = req[w].bid /\ p.payment_type = "FINE"]_vars

\* C33: a Return of a borrowing without Payments whose automatic payment
\* passed validation is ended in the automatic-payment step only by a
\* failure of the payment processor, and then persisted state is unchanged:
\* the borrowing is still active, the inventory is what it was and no
\* Payment row is left for the borrowing.
C33_AutoPayFailureLeavesNothing ==
    [][\A w \in Workers :
          (/\ Ends(w, "Return") /\ req[w].pc = "autopay"
           /\ PaymentValidate(req[w].user, req[w].bid) = "ok")
          => /\ last'.result = "StripeError"
             /\ PaymentsOf(req[w].bid)' = {}
             /\ payments' = payments
             /\ sessions' = sessions
             /\ inventory' = inventory
             /\ \E r \in borrowings' : r.id = req[w].bid /\ is_active(r)]_vars

\* C34: a Return of an active borrowing requested by staff succeeds unless
\* the payment processor cannot be reached, whatever Payments exist for the
\* borrowing's user and book: the request is not rejected on arrival, and
\* it ends only by committing or with the processor's failure.
C34_StaffReturnAlwaysSucceeds ==
    [][/\ \A bid \in BorrowingIds :
            (ReturnArrives("staff", bid) /\ is_active(Row(bid)))
            => \E w \in Workers :
                  /\ req[w].op = "idle" /\ req'[w].op = "Return"
                  /\ req'[w].bid = bid
       /\ \A w \in Workers :
            (/\ Ends(w, "Return") /\ IsStaff(req[w].user)
             /\ \E r \in borrowings : r.id = req[w].bid /\ is_active(r))
            => last'.result \in ReturnCommitted \cup {"StripeError"}]_vars

\* The Payments of type PAYMENT that the rows S hold for borrowing bid.
RentalPayments(S, bid) ==
    {p \in S : p.borrowing = bid /\ p.payment_type = "PAYMENT"}

BorrowingWrites ==
    {"Create", "Return", "UpdateBorrowing", "DestroyBorrowing"}

\* C36: every step of a write operation that BorrowingViewSet exposes
\* (create, return, and the inherited update, partial_update and destroy of
\* a borrowing) preserves, for each book, inventory + number of active
\* borrowings of that book.
C36_WritesPreserveStock ==
    [][(\/ \E w \in Workers :
             req'[w] # req[w]
             /\ (req[w].op \in BorrowingWrites \/ req'[w].op \in BorrowingWrites)
        \/ nreq' = nreq + 1 /\ req' = req /\ last'.op \in BorrowingWrites)
       => \A b \in Books :
             inventory'[b] + ActiveCount(borrowings', b)
                = inventory[b] + ActiveCount(borrowings, b)]_vars

====
